---- MODULE Spec2Model ----
(***************************************************************************)
(* ShopSmart: the /resolve entity-resolution endpoint (src/main.py) and    *)
(* the /search hybrid-search endpoint (src/src/backend.py), with their     *)
(* Redis caches, background trace/log tasks and cache-key normalisation.   *)
(*                                                                         *)
(* Text is a sequence of one-character strings, so that lower(), split()   *)
(* and strip() are computed character by character as Python does.         *)
(***************************************************************************)
EXTENDS Integers, Sequences, FiniteSets, TLC

VARIABLES
    \* ---- /resolve service (src/main.py)
    redisUp,        \* the Redis server answers (environment)
    redis_client,   \* main.py:24-35  "client" or None after the startup ping
    cache,          \* the Redis keyspace used by /resolve: key -> serialized response
    req,            \* per request: the handler's locals and its HTTP outcome
    traces,         \* pipeline_traces.jsonl: the records appended by log_trace
    \* ---- /search service (src/src/backend.py)
    r,              \* backend.py:26-29  the module-level Redis handle
    scache,         \* the Redis keyspace used by /search
    sreq,           \* per request: the handler's locals and its response
    slog,           \* search_logs.jsonl: the events written by log_search_event
    \* ---- cache-key derivation on free text
    q0, q, top_k, normalized_query, cache_key,
    \* ---- the ranking steps of /search on full-size hit lists
    rank            \* backend.py:97-131  the handler's locals, step by step

vars == <<redisUp, redis_client, cache, req, traces,
          r, scache, sreq, slog,
          q0, q, top_k, normalized_query, cache_key, rank>>

resolveVars == <<redis_client, cache, req, traces>>
searchVars  == <<r, scache, sreq, slog>>
normVars    == <<q0, q, top_k, normalized_query, cache_key>>

None == "None"

\* the ranking locals while no ranking is being followed
RankIdle ==
    [pc |-> "idle", dense_hits |-> <<>>, sparse_hits |-> <<>>, top_k |-> 0,
     candidates |-> <<>>, rerank_pool |-> <<>>, results |-> <<>>]

-----------------------------------------------------------------------------
(* Bounds of the model *)

MaxTextLen == 4     \* longest query text enumerated for key derivation
MaxCands   == 2     \* longest candidate list the vector store returns to /resolve
MaxHits    == 2     \* longest dense or sparse hit list returned to /search

-----------------------------------------------------------------------------
(* Text: Python str.lower, str.split, str.strip, " ".join *)

Letters    == {"a", "A"}
Whitespace == {" ", "\t"}
Chars      == Letters \cup Whitespace

IsSpace(c) == c \in Whitespace

LowerChar(c) == IF c = "A" THEN "a" ELSE c

\* str.lower()
Lower(s) == [i \in 1..Len(s) |-> LowerChar(s[i])]

\* str.split() with no argument: the maximal runs of non-whitespace
RECURSIVE SplitFrom(_, _, _)
SplitFrom(s, i, cur) ==
    IF i > Len(s)
    THEN IF cur = <<>> THEN <<>> ELSE <<cur>>
    ELSE IF IsSpace(s[i])
         THEN IF cur = <<>>
              THEN SplitFrom(s, i + 1, <<>>)
              ELSE <<cur>> \o SplitFrom(s, i + 1, <<>>)
         ELSE SplitFrom(s, i + 1, Append(cur, s[i]))

Split(s) == SplitFrom(s, 1, <<>>)

\* " ".join(words)
RECURSIVE JoinSpace(_)
JoinSpace(ws) ==
    IF ws = <<>> THEN <<>>
    ELSE IF Len(ws) = 1 THEN ws[1]
    ELSE ws[1] \o <<" ">> \o JoinSpace(Tail(ws))

\* str.strip(): drop leading and trailing whitespace only
RECURSIVE LStrip(_)
LStrip(s) == IF s # <<>> /\ IsSpace(s[1]) THEN LStrip(Tail(s)) ELSE s

RECURSIVE RStrip(_)
RStrip(s) ==
    IF s # <<>> /\ IsSpace(s[Len(s)]) THEN RStrip(SubSeq(s, 1, Len(s) - 1)) ELSE s

Strip(s) == RStrip(LStrip(s))

\* A mutated key derivation: strips the ends but keeps internal whitespace runs
NormalizedQueryStripOnly(query) == Strip(Lower(query))

\* main.py:114  normalized_query = " ".join(query.lower().split())
NormalizedQuery(query) == JoinSpace(Split(Lower(query)))

\* backend.py:83  cache_key = f"search:{request.query.lower().strip()}:{request.top_k}:v5"
SearchCacheKey(query, k) == <<"search", Strip(Lower(query)), k, "v5">>

-----------------------------------------------------------------------------
(* Cache-key derivation on free text.  q0 is a query text; q is a text     *)
(* obtained from it by changing letter case and the amount of whitespace   *)
(* only.  Every step derives both cache keys from q as the handlers do.    *)

TopKs == {1, 2}

RECURSIVE TextsOfLen(_)
TextsOfLen(n) ==
    IF n = 0 THEN {<<>>}
    ELSE {Append(t, c) : t \in TextsOfLen(n - 1), c \in Chars}

Texts == UNION {TextsOfLen(n) : n \in 0..MaxTextLen}

SwapCase(c) == IF c = "a" THEN "A" ELSE IF c = "A" THEN "a" ELSE c

\* position i (0..Len) is an end of the text or touches whitespace
AtWhitespaceRun(s, i) ==
    IF i = 0 \/ i = Len(s) THEN TRUE
    ELSE IsSpace(s[i]) \/ IsSpace(s[i + 1])

InsertAt(s, i, c) == SubSeq(s, 1, i) \o <<c>> \o SubSeq(s, i + 1, Len(s))
RemoveAt(s, i)    == SubSeq(s, 1, i - 1) \o SubSeq(s, i + 1, Len(s))

DeriveKeys(text) ==
    /\ q' = text
    /\ normalized_query' = NormalizedQuery(text)
    /\ cache_key' = SearchCacheKey(text, top_k)
    /\ UNCHANGED <<q0, top_k>>

ServiceIdle ==
    /\ redisUp = TRUE
    /\ redis_client = None
    /\ cache = <<>>
    /\ req = <<>>
    /\ traces = <<>>
    /\ r = None
    /\ scache = <<>>
    /\ sreq = <<>>
    /\ slog = <<>>

InitNorm ==
    /\ ServiceIdle
    /\ q0 \in Texts
    /\ q = q0
    /\ top_k \in TopKs
    /\ normalized_query = NormalizedQuery(q0)
    /\ cache_key = SearchCacheKey(q0, top_k)
    /\ rank = RankIdle

\* the same text with one letter in the other case
ChangeCase ==
    \E i \in 1..Len(q) :
        /\ SwapCase(q[i]) # q[i]
        /\ DeriveKeys([q EXCEPT ![i] = SwapCase(q[i])])
        /\ UNCHANGED <<redisUp, resolveVars, searchVars, rank>>

\* one more whitespace character at the start, at the end or in a whitespace run
AddWhitespace ==
    \E i \in 0..Len(q), c \in Whitespace :
        /\ Len(q) < MaxTextLen
        /\ AtWhitespaceRun(q, i)
        /\ DeriveKeys(InsertAt(q, i, c))
        /\ UNCHANGED <<redisUp, resolveVars, searchVars, rank>>

\* one whitespace character less at the start, at the end or in a whitespace run
DropWhitespace ==
    \E i \in 1..Len(q) :
        /\ IsSpace(q[i])
        /\ IF i = 1 \/ i = Len(q) THEN TRUE
           ELSE IsSpace(q[i - 1]) \/ IsSpace(q[i + 1])
        /\ DeriveKeys(RemoveAt(q, i))
        /\ UNCHANGED <<redisUp, resolveVars, searchVars, rank>>

NextNorm == ChangeCase \/ AddWhitespace \/ DropWhitespace

SpecNorm == InitNorm /\ [][NextNorm]_vars

\* C8: in /resolve, texts that differ only in letter case and in the amount of
\* leading, trailing or internal whitespace have the same cache key, and the
\* normalized form of a normalized text is that text.
C8_ResolveKeyStable ==
    /\ normalized_query = NormalizedQuery(q0)
    /\ NormalizedQuery(normalized_query) = normalized_query

\* "a a" against "A  a": a variation in case and in internal whitespace at once
C8_Witness ==
    /\ q0 = <<"a", " ", "a">>
    /\ q = <<"A", " ", " ", "a">>
    /\ normalized_query = <<"a", " ", "a">>

\* C9 (as claimed): in /search, texts that differ only in letter case and in the
\* amount of leading, trailing or internal whitespace, with the same top_k, have
\* the same cache key.
C9_SearchKeyStable == cache_key = SearchCacheKey(q0, top_k)

-----------------------------------------------------------------------------
(* JSON values of the judge's reply, with Python's truthiness and str() *)

JNull     == [t |-> "null", s |-> "None"]
JTrue     == [t |-> "bool", s |-> "True"]
JFalse    == [t |-> "bool", s |-> "False"]
Digits    == <<"0", "1", "2", "3", "4", "5", "6">>
IdxStr(n) == Digits[n + 1]                       \* str(i) of a small index
JInt(n)   == [t |-> "int", s |-> IdxStr(n)]
JStr(str) == [t |-> "str", s |-> str]

\* bool(v)
Truthy(v) ==
    ~ \/ v.t = "null"
      \/ v.t = "bool" /\ v.s = "False"
      \/ v.t = "int" /\ v.s = "0"
      \/ v.t = "str" /\ v.s = ""

\* str(v).lower() on the values of the model
StrLower(v) ==
    IF v.s \in {"None", "NONE", "none"} THEN "none"
    ELSE IF v.s \in {"Null", "NULL", "null"} THEN "null"
    ELSE IF v.s = "True" THEN "true"
    ELSE IF v.s = "False" THEN "false"
    ELSE v.s

-----------------------------------------------------------------------------
(* /resolve: src/main.py *)

\* two requests in flight, each to /resolve or to /search
Reqs      == {1, 2}
QueryPool == { <<" ", "A">>, <<"a", "a">> }

\* the payload stored with catalog point p (main.py:157-160, 240-247)
Payload(p) ==
    [extracted_title |-> <<"title", p>>, price |-> <<"price", p>>,
     url |-> <<"url", p>>, retailer |-> "Walmart"]

\* main.py:136-144  the fused hit lists the vector store can answer with
Retrievals == {[j \in 1..n |-> j] : n \in 0..MaxCands}

\* a lookup that ignores the key and takes the top-ranked candidate
CandidateAtFirst(search_results, key) == Payload(search_results[1])

\* main.py:154-160  candidate_map: keys str(i) for i = 0 .. len-1
CandidateKeys(search_results) == {IdxStr(j - 1) : j \in 1..Len(search_results)}
CandidateAt(search_results, key) ==
    Payload(search_results[CHOOSE j \in 1..Len(search_results) : IdxStr(j - 1) = key])

\* what llm_client.chat.completions.create can give back (main.py:201-212)
\*   raise  : the call itself fails
\*   text   : content that is not valid JSON
\*   array  : valid JSON that is not an object
\*   object : a JSON object with match_found and candidate_id; JSON lets either
\*            field be a string where a boolean or an integer is asked for
JudgeReplies ==
    {[kind |-> k, match_found |-> JNull, candidate_id |-> JNull] :
        k \in {"raise", "text", "array"}}
    \cup
    {[kind |-> "object", match_found |-> m, candidate_id |-> c] :
        m \in {JTrue, JFalse}, c \in {JNull} \cup {JInt(n) : n \in 0..MaxCands}}
    \cup
    {[kind |-> "object", match_found |-> JStr("false"), candidate_id |-> JInt(0)],
     [kind |-> "object", match_found |-> JTrue, candidate_id |-> JStr("0")]}

\* the decision dict handed to log_trace; empty is the {} of main.py:215
EmptyDecision == [empty |-> TRUE, match_found |-> JNull, candidate_id |-> JNull]
DecisionOf(reply) ==
    [empty |-> FALSE, match_found |-> reply.match_found,
     candidate_id |-> reply.candidate_id]

NoBody == [product_title |-> <<>>, match_score |-> 0, retailer |-> "",
           latency_ms |-> 0, price |-> <<>>, url |-> <<>>]

\* main.py:235-257  final_response
FinalResponse(matched_product, total_latency) ==
    [product_title |-> matched_product.extracted_title,
     match_score   |-> 1,
     retailer      |-> matched_product.retailer,
     latency_ms    |-> total_latency,
     price         |-> matched_product.price,
     url           |-> matched_product.url]

\* json.dumps(final_response) / json.loads(cached_result): the cached text lists
\* the fields in the order of the dict
JsonDumps(body) ==
    <<body.product_title, body.match_score, body.retailer,
      body.latency_ms, body.price, body.url>>
\* A mutated cache read: the hit is answered with a freshly measured latency
JsonLoadsFreshLatency(text) ==
    [product_title |-> text[1], match_score |-> text[2], retailer |-> text[3],
     latency_ms |-> 0, price |-> text[5], url |-> text[6]]

JsonLoads(text) ==
    [product_title |-> text[1], match_score |-> text[2], retailer |-> text[3],
     latency_ms |-> text[4], price |-> text[5], url |-> text[6]]

Http(status, detail, body) == [status |-> status, detail |-> detail, body |-> body]

\* an exception no handler catches: the framework answers 500
Unhandled == Http(500, <<"Internal Server Error">>, NoBody)

TraceArgs(query, search_results, decision, final_latency, error_state) ==
    [query |-> query, search_results |-> search_results, decision |-> decision,
     final_latency |-> final_latency, error_state |-> error_state]

\* main.py:221  the rejection test of the gate
GateRejects(decision) ==
    \/ ~Truthy(decision.match_found)
    \/ decision.candidate_id.t = "null"
    \/ StrLower(decision.candidate_id) \in {"none", "null", ""}

\* A mutated handler tail: the cache entry is prepared before the candidate index
\* is looked up, so an index outside the candidate list still writes
ResolveTailWriteFirst(query, search_results, reply, total_latency) ==
    IF reply.kind = "raise"
    THEN [path |-> "judge_error", response |-> Unhandled, entry |-> <<>>, tasks |-> <<>>]
    ELSE IF reply.kind = "text"
    THEN [path |-> "not_json",
          response |-> Http(404, <<"AI reasoning failure. Safely rejecting.">>, NoBody),
          entry |-> <<>>,
          tasks |-> <<TraceArgs(query, search_results, EmptyDecision, total_latency,
                                "JSON Decode Error")>>]
    ELSE IF reply.kind = "array"
    THEN [path |-> "not_object", response |-> Unhandled, entry |-> <<>>, tasks |-> <<>>]
    ELSE IF GateRejects(DecisionOf(reply))
    THEN [path |-> "rejected",
          response |-> Http(404, <<"LLM rejected all candidates.">>, NoBody),
          entry |-> <<>>,
          tasks |-> <<TraceArgs(query, search_results, DecisionOf(reply), total_latency,
                                "LLM Rejected")>>]
    ELSE IF reply.candidate_id.s \notin CandidateKeys(search_results)
    THEN [path |-> "invalid_id",
          response |-> Http(500, <<"LLM returned an unparseable candidate ID.">>, NoBody),
          entry |-> <<JsonDumps(FinalResponse(Payload(search_results[1]), total_latency))>>,
          tasks |-> <<TraceArgs(query, search_results, DecisionOf(reply), total_latency,
                                "Invalid Candidate ID")>>]
    ELSE [path |-> "success",
          response |-> Http(200, <<>>,
                            FinalResponse(CandidateAt(search_results, reply.candidate_id.s),
                                          total_latency)),
          entry |-> <<JsonDumps(FinalResponse(
                        CandidateAt(search_results, reply.candidate_id.s), total_latency))>>,
          tasks |-> <<TraceArgs(query, search_results, DecisionOf(reply), total_latency,
                                "None")>>]

\* main.py:201-270  the handler from the judge call on, for a non-empty
\* candidate list: the response, the cache entry to write (none or one) and the
\* log_trace call scheduled (none or one)
ResolveTail(query, search_results, reply, total_latency) ==
    IF reply.kind = "raise"
    THEN \* main.py:201  no try around the call
         [path |-> "judge_error", response |-> Unhandled, entry |-> <<>>, tasks |-> <<>>]
    ELSE IF reply.kind = "text"
    THEN \* main.py:213-216  json.JSONDecodeError
         [path |-> "not_json",
          response |-> Http(404, <<"AI reasoning failure. Safely rejecting.">>, NoBody),
          entry |-> <<>>,
          tasks |-> <<TraceArgs(query, search_results, EmptyDecision, total_latency,
                                "JSON Decode Error")>>]
    ELSE IF reply.kind = "array"
    THEN \* main.py:218  decision.get on a value that is no dict: AttributeError
         [path |-> "not_object", response |-> Unhandled, entry |-> <<>>, tasks |-> <<>>]
    ELSE IF GateRejects(DecisionOf(reply))
    THEN \* main.py:221-224
         [path |-> "rejected",
          response |-> Http(404, <<"LLM rejected all candidates.">>, NoBody),
          entry |-> <<>>,
          tasks |-> <<TraceArgs(query, search_results, DecisionOf(reply), total_latency,
                                "LLM Rejected")>>]
    ELSE IF reply.candidate_id.s \notin CandidateKeys(search_results)
    THEN \* main.py:227-233  KeyError
         [path |-> "invalid_id",
          response |-> Http(500, <<"LLM returned an unparseable candidate ID.">>, NoBody),
          entry |-> <<>>,
          tasks |-> <<TraceArgs(query, search_results, DecisionOf(reply), total_latency,
                                "Invalid Candidate ID")>>]
    ELSE \* main.py:235-270
         [path |-> "success",
          response |-> Http(200, <<>>,
                            FinalResponse(CandidateAt(search_results, reply.candidate_id.s),
                                          total_latency)),
          entry |-> <<JsonDumps(FinalResponse(
                        CandidateAt(search_results, reply.candidate_id.s), total_latency))>>,
          tasks |-> <<TraceArgs(query, search_results, DecisionOf(reply), total_latency,
                                "None")>>]

\* main.py:75-99  the record log_trace builds from its arguments (i tags the
\* request the call was scheduled by)
TraceRecord(i, a) ==
    [req            |-> i,
     query          |-> a.query,
     top_candidates |-> a.search_results,
     decision       |-> IF ~a.decision.empty THEN a.decision.match_found ELSE JFalse,
     candidate_id   |-> IF ~a.decision.empty THEN a.decision.candidate_id ELSE JNull,
     latency_ms     |-> a.final_latency,
     status         |-> IF ~a.decision.empty /\ Truthy(a.decision.match_found)
                        THEN "success" ELSE "not_found",
     error          |-> a.error_state]

QdrantErrorText == "<text of the vector store's exception>"

IdleReq ==
    [pc |-> "idle", query |-> <<>>, normalized_query |-> <<>>,
     path |-> "",             \* the branch of the handler that answered
     response |-> Http(0, <<>>, NoBody),
     tasks |-> <<>>,          \* background_tasks: scheduled log_trace calls
     calls |-> {},            \* the external services the handler invoked
     cached_result |-> <<>>,  \* what redis_client.get returned, if it returned a hit
     written |-> <<>>,        \* the cache text this request stored, if any
     trace_failed |-> FALSE]  \* log_trace ran for this request and its write failed

\* the handler returns or raises: the request is answered
Answer(i, path, response, tasks, calls, written) ==
    req' = [req EXCEPT ![i].pc = "done", ![i].path = path, ![i].response = response,
                       ![i].tasks = tasks, ![i].calls = calls,
                       ![i].written = written]

\* a handler start that never consults the cache
ResolveCacheCheckNoLookup(i, query) ==
    /\ req[i].pc = "idle"
    /\ sreq[i].pc = "idle"
    /\ req' = [req EXCEPT ![i].query = query,
                          ![i].normalized_query = NormalizedQuery(query),
                          ![i].pc = "miss"]
    /\ UNCHANGED <<redisUp, redis_client, cache, traces, searchVars, normVars, rank>>

\* main.py:112-121  start of the handler: normalise, look the key up
ResolveCacheCheck(i, query) ==
    /\ req[i].pc = "idle"
    /\ sreq[i].pc = "idle"
    /\ LET nq == NormalizedQuery(query)
           started == [req[i] EXCEPT !.query = query, !.normalized_query = nq]
       IN IF redis_client # None
          THEN IF ~redisUp
               THEN \* redis_client.get raises; nothing catches it
                    req' = [req EXCEPT ![i] = [started EXCEPT !.pc = "done",
                                                              !.path = "cache_read_error",
                                                              !.response = Unhandled]]
               ELSE IF nq \in DOMAIN cache
               THEN req' = [req EXCEPT ![i] =
                               [started EXCEPT !.pc = "done",
                                               !.path = "cache_hit",
                                               !.cached_result = <<cache[nq]>>,
                                               !.response = Http(200, <<>>, JsonLoads(cache[nq]))]]
               ELSE req' = [req EXCEPT ![i] = [started EXCEPT !.pc = "miss"]]
          ELSE req' = [req EXCEPT ![i] = [started EXCEPT !.pc = "miss"]]
    /\ UNCHANGED <<redisUp, redis_client, cache, traces, searchVars, normVars, rank>>

\* main.py:127-128  an embedder fails: the exception leaves the handler
ResolveEmbedFails(i) ==
    /\ req[i].pc = "miss"
    /\ Answer(i, "embed_error", Unhandled, <<>>, {"embed"}, <<>>)
    /\ UNCHANGED <<redisUp, redis_client, cache, traces, searchVars, normVars, rank>>

\* main.py:135-148  the vector store fails
ResolveRetrieveFails(i) ==
    /\ req[i].pc = "miss"
    /\ Answer(i, "vector_store_error",
              Http(500, <<"Database error: ", QdrantErrorText>>, NoBody),
              <<>>, {"embed", "qdrant"}, <<>>)
    /\ UNCHANGED <<redisUp, redis_client, cache, traces, searchVars, normVars, rank>>

\* main.py:150-151  the vector store returns no point
ResolveNoCandidates(i) ==
    /\ req[i].pc = "miss"
    /\ Answer(i, "no_candidates",
              Http(404, <<"No products found in vector search.">>, NoBody),
              <<>>, {"embed", "qdrant"}, <<>>)
    /\ UNCHANGED <<redisUp, redis_client, cache, traces, searchVars, normVars, rank>>

\* main.py:153-270  candidates found: judge, gate, cache write, trace scheduling.
\* total_latency is the time this request measured, written i.
ResolveJudge(i, search_results, reply) ==
    /\ req[i].pc = "miss"
    /\ search_results # <<>>
    /\ LET tail == ResolveTail(req[i].query, search_results, reply, i)
           all  == {"embed", "qdrant", "judge"}
       IN IF tail.entry # <<>> /\ redis_client # None
          THEN IF redisUp
               THEN \* main.py:260-265 setex, then 268 add_task, then 270 return
                    /\ cache' = [k \in DOMAIN cache \cup {req[i].normalized_query} |->
                                   IF k = req[i].normalized_query
                                   THEN tail.entry[1] ELSE cache[k]]
                    /\ Answer(i, tail.path, tail.response, tail.tasks, all, tail.entry)
               ELSE \* setex raises before add_task is reached
                    /\ cache' = cache
                    /\ Answer(i, "cache_write_error", Unhandled, <<>>, all, <<>>)
          ELSE /\ cache' = cache
               /\ Answer(i, tail.path, tail.response, tail.tasks, all, <<>>)
    /\ UNCHANGED <<redisUp, redis_client, traces, searchVars, normVars, rank>>

\* a log_trace without its except clause: a failing write becomes the answer
LogTraceRaises(i, ok) ==
    /\ req[i].pc = "done"
    /\ req[i].tasks # <<>>
    /\ traces' = IF ok THEN Append(traces, TraceRecord(i, Head(req[i].tasks)))
                 ELSE traces
    /\ req' = [req EXCEPT ![i].tasks = Tail(@),
                          ![i].trace_failed = @ \/ ~ok,
                          ![i].response = IF ok THEN @ ELSE Unhandled]
    /\ UNCHANGED <<redisUp, redis_client, cache, searchVars, normVars, rank>>

\* main.py:75-107  a scheduled log_trace runs after its request was answered;
\* ok = FALSE is a failing write, which the except clause swallows
LogTrace(i, ok) ==
    /\ req[i].pc = "done"
    /\ req[i].tasks # <<>>
    /\ traces' = IF ok THEN Append(traces, TraceRecord(i, Head(req[i].tasks)))
                 ELSE traces
    /\ req' = [req EXCEPT ![i].tasks = Tail(@),
                          ![i].trace_failed = @ \/ ~ok]
    /\ UNCHANGED <<redisUp, redis_client, cache, searchVars, normVars, rank>>

\* the Redis server stops answering / answers again
RedisFails ==
    /\ redisUp
    /\ redisUp' = FALSE
    /\ UNCHANGED <<resolveVars, searchVars, normVars, rank>>

RedisRecovers ==
    /\ ~redisUp
    /\ redisUp' = TRUE
    /\ UNCHANGED <<resolveVars, searchVars, normVars, rank>>

\* main.py:263  the store drops an entry whose 86400 s have passed
ExpireEntry(k) ==
    /\ k \in DOMAIN cache
    /\ cache' = [x \in DOMAIN cache \ {k} |-> cache[x]]
    /\ UNCHANGED <<redisUp, redis_client, req, traces, searchVars, normVars, rank>>

-----------------------------------------------------------------------------
(* /search: src/src/backend.py *)

SearchTopKs == {1, 2}

\* backend.py:99-100  what search_via_rest returns per representation: the first
\* hits of that representation's ranking, or [] when the REST call fails
DenseHitLists  == {[j \in 1..n |-> j] : n \in 0..MaxHits}
SparseHitLists == {[j \in 1..n |-> j + 1] : n \in 0..MaxHits}

\* a merge that keeps every hit, seen before or not
DedupKeepAll(hits, seen_ids) == hits

\* backend.py:102-107  first occurrence of each id, in order
RECURSIVE Dedup(_, _)
Dedup(hits, seen_ids) ==
    IF hits = <<>> THEN <<>>
    ELSE IF Head(hits) \in seen_ids
         THEN Dedup(Tail(hits), seen_ids)
         ELSE <<Head(hits)>> \o Dedup(Tail(hits), seen_ids \cup {Head(hits)})

\* a merge that walks the sparse hits before the dense hits
CandidatesSparseFirst(dense_hits, sparse_hits) == Dedup(sparse_hits \o dense_hits, {})

\* backend.py:102  for hit in dense_hits + sparse_hits
Candidates(dense_hits, sparse_hits) == Dedup(dense_hits \o sparse_hits, {})

RerankPoolSize == 12

\* backend.py:114  candidates[:12]
RerankPool(candidates) ==
    SubSeq(candidates, 1, IF Len(candidates) < RerankPoolSize
                          THEN Len(candidates) ELSE RerankPoolSize)

\* backend.py:116  reranker.predict: the logit the cross-encoder gives the title
\* of point id (fixed weights)
Logit(id) == IF id % 3 = 1 THEN 0 ELSE IF id % 3 = 2 THEN 2 ELSE 0 - 1

\* backend.py:37-38  1 / (1 + exp(-x)), in ten-thousandths
Sigmoid(x) ==
    IF x <= 0 - 1 THEN 2689 ELSE IF x = 0 THEN 5000 ELSE IF x = 1 THEN 7311 ELSE 8808

\* backend.py:130  round(score, 3), in thousandths
Round3(score) == (score + 5) \div 10

\* backend.py:118-119  hit.score = float(sigmoid(logits[idx]))
Scored(pool) == [j \in 1..Len(pool) |-> [id |-> pool[j], score |-> Sigmoid(Logit(pool[j]))]]

\* backend.py:121  sorted(..., key=score, reverse=True): stable, descending
RECURSIVE InsertDesc(_, _)
InsertDesc(sorted, h) ==
    IF sorted = <<>> THEN <<h>>
    ELSE IF Head(sorted).score >= h.score
         THEN <<Head(sorted)>> \o InsertDesc(Tail(sorted), h)
         ELSE <<h>> \o sorted

RECURSIVE SortedDesc(_)
SortedDesc(hits) ==
    IF hits = <<>> THEN <<>>
    ELSE InsertDesc(SortedDesc(SubSeq(hits, 1, Len(hits) - 1)), hits[Len(hits)])

\* backend.py:121  seq[:k]
SliceTo(seq, k) ==
    IF k >= 0
    THEN SubSeq(seq, 1, IF k < Len(seq) THEN k ELSE Len(seq))
    ELSE SubSeq(seq, 1, IF Len(seq) + k > 0 THEN Len(seq) + k ELSE 0)

\* backend.py:121  sorted(rerank_pool, key=score, reverse=True)[:top_k]
Ranked(rerank_pool, k) == SliceTo(SortedDesc(Scored(rerank_pool)), k)

\* backend.py:123-131  one result per ranked hit, with its rounded score
Results(ranked_results) ==
    [j \in 1..Len(ranked_results) |->
        [id |-> ranked_results[j].id,
         relevance_score |-> Round3(ranked_results[j].score)]]

\* backend.py:113-131
RankedResults(dense_hits, sparse_hits, k) ==
    Results(Ranked(RerankPool(Candidates(dense_hits, sparse_hits)), k))

SResponse(status, results, latency, source) ==
    [status |-> status, results |-> results, latency_ms |-> latency, source |-> source]

SUnhandled == SResponse(500, <<>>, 0, "Internal Server Error")
SEmpty     == SResponse(200, <<>>, 0, "Empty")     \* backend.py:111
SError     == SResponse(200, <<>>, 0, "Error")     \* backend.py:152

\* json.dumps(response) / json.loads(cached) of backend.py:145, 87
SJsonDumps(resp) == <<resp.results, resp.latency_ms, resp.source>>
SJsonLoads(text) == SResponse(200, text[1], text[2], text[3])

\* backend.py:62-71  arguments of a scheduled log_search_event
SearchEvent(query, latency, num_results, source) ==
    [query |-> query, latency_ms |-> latency, results_count |-> num_results,
     source |-> source]

IdleSReq ==
    [pc |-> "idle", query |-> <<>>, top_k |-> 0, cache_key |-> <<>>,
     path |-> "",             \* the branch of the handler that answered
     response |-> SResponse(0, <<>>, 0, ""),
     tasks |-> <<>>,          \* background_tasks: scheduled log_search_event calls
     calls |-> {},
     cached |-> <<>>,         \* what r.get returned, if it returned a hit
     written |-> <<>>,        \* the cache text this request stored, if any
     log_failed |-> FALSE]    \* log_search_event ran for this request and its write failed

SAnswer(i, path, response, tasks, calls, written) ==
    sreq' = [sreq EXCEPT ![i].pc = "done", ![i].path = path, ![i].response = response,
                         ![i].tasks = tasks, ![i].calls = calls,
                         ![i].written = written]

\* backend.py:80-90  start of the handler: build the key, look it up
SearchCacheCheck(i, query, k) ==
    /\ sreq[i].pc = "idle"
    /\ req[i].pc = "idle"
    /\ LET key == SearchCacheKey(query, k)
           started == [sreq[i] EXCEPT !.query = query, !.top_k = k, !.cache_key = key]
       IN IF r # None
          THEN IF ~redisUp
               THEN \* r.get raises outside the try block
                    sreq' = [sreq EXCEPT ![i] = [started EXCEPT !.pc = "done",
                                                                !.path = "cache_read_error",
                                                                !.response = SUnhandled]]
               ELSE IF key \in DOMAIN scache
               THEN sreq' = [sreq EXCEPT ![i] =
                               [started EXCEPT
                                  !.pc = "done",
                                  !.path = "cache_hit",
                                  !.cached = <<scache[key]>>,
                                  !.response = SJsonLoads(scache[key]),
                                  !.tasks = <<SearchEvent(query, 0,
                                                Len(SJsonLoads(scache[key]).results),
                                                "Cache")>>]]
               ELSE sreq' = [sreq EXCEPT ![i] = [started EXCEPT !.pc = "miss"]]
          ELSE sreq' = [sreq EXCEPT ![i] = [started EXCEPT !.pc = "miss"]]
    /\ UNCHANGED <<redisUp, resolveVars, r, scache, slog, normVars, rank>>

\* backend.py:92-116, 149-152  a model call raises inside the try block
SearchModelFails(i) ==
    /\ sreq[i].pc = "miss"
    /\ SAnswer(i, "model_error", SError, <<>>, {"embed"}, <<>>)
    /\ UNCHANGED <<redisUp, resolveVars, r, scache, slog, normVars, rank>>

\* backend.py:92-147  retrieval, dedup, rerank, event, cache write.
\* latency is the time this request measured, written i.
SearchRun(i, dense_hits, sparse_hits) ==
    /\ sreq[i].pc = "miss"
    /\ LET candidates == Candidates(dense_hits, sparse_hits)
           results    == RankedResults(dense_hits, sparse_hits, sreq[i].top_k)
           response   == SResponse(200, results, i, "Hybrid+TinyBERT")
           event      == SearchEvent(sreq[i].query, i, Len(results), "Hybrid+TinyBERT")
       IN IF candidates = <<>>
          THEN /\ scache' = scache
               /\ SAnswer(i, "no_candidates", SEmpty, <<>>, {"embed", "retrieve"}, <<>>)
          ELSE IF r # None
          THEN IF redisUp
               THEN /\ scache' = [k \in DOMAIN scache \cup {sreq[i].cache_key} |->
                                    IF k = sreq[i].cache_key
                                    THEN SJsonDumps(response) ELSE scache[k]]
                    /\ SAnswer(i, "success", response, <<event>>,
                               {"embed", "retrieve", "rerank"}, <<SJsonDumps(response)>>)
               ELSE \* r.setex raises after add_task; the except clause answers
                    /\ scache' = scache
                    /\ SAnswer(i, "cache_write_error", SError, <<event>>,
                               {"embed", "retrieve", "rerank"}, <<>>)
          ELSE /\ scache' = scache
               /\ SAnswer(i, "success", response, <<event>>,
                       {"embed", "retrieve", "rerank"}, <<>>)
    /\ UNCHANGED <<redisUp, resolveVars, r, slog, normVars, rank>>

\* backend.py:62-71  a scheduled log_search_event runs after the response;
\* ok = FALSE is a failing write, which the logging handler reports on stderr
\* and does not raise
LogSearchEvent(i, ok) ==
    /\ sreq[i].pc = "done"
    /\ sreq[i].tasks # <<>>
    /\ slog' = IF ok THEN Append(slog, [req |-> i] @@ Head(sreq[i].tasks))
               ELSE slog
    /\ sreq' = [sreq EXCEPT ![i].tasks = Tail(@),
                            ![i].log_failed = @ \/ ~ok]
    /\ UNCHANGED <<redisUp, resolveVars, r, scache, normVars, rank>>

\* backend.py:145  the store drops an entry whose CACHE_EXPIRE_SECONDS have passed
ExpireSearchEntry(k) ==
    /\ k \in DOMAIN scache
    /\ scache' = [x \in DOMAIN scache \ {k} |-> scache[x]]
    /\ UNCHANGED <<redisUp, resolveVars, r, sreq, slog, normVars, rank>>

NormIdle ==
    /\ q0 = <<>>
    /\ q = <<>>
    /\ top_k = 0
    /\ normalized_query = <<>>
    /\ cache_key = <<>>

\* main.py:24-35  the startup ping decides whether a client is kept
Init ==
    /\ redisUp \in BOOLEAN
    /\ redis_client = IF redisUp THEN "client" ELSE None
    /\ cache = <<>>
    /\ req = [i \in Reqs |-> IdleReq]
    /\ traces = <<>>
    /\ r = "client"
    /\ scache = <<>>
    /\ sreq = [i \in Reqs |-> IdleSReq]
    /\ slog = <<>>
    /\ NormIdle
    /\ rank = RankIdle

Next ==
    \/ \E i \in Reqs, query \in QueryPool : ResolveCacheCheck(i, query)
    \/ \E i \in Reqs : ResolveEmbedFails(i)
    \/ \E i \in Reqs : ResolveRetrieveFails(i)
    \/ \E i \in Reqs : ResolveNoCandidates(i)
    \/ \E i \in Reqs, sr \in Retrievals, reply \in JudgeReplies : ResolveJudge(i, sr, reply)
    \/ \E i \in Reqs, ok \in BOOLEAN : LogTrace(i, ok)
    \/ RedisFails
    \/ RedisRecovers
    \/ \E k \in DOMAIN cache : ExpireEntry(k)
    \/ \E i \in Reqs, query \in QueryPool, k \in SearchTopKs : SearchCacheCheck(i, query, k)
    \/ \E i \in Reqs : SearchModelFails(i)
    \/ \E i \in Reqs, d \in DenseHitLists, sp \in SparseHitLists : SearchRun(i, d, sp)
    \/ \E i \in Reqs, ok \in BOOLEAN : LogSearchEvent(i, ok)
    \/ \E k \in DOMAIN scache : ExpireSearchEntry(k)

Spec == Init /\ [][Next]_vars

-----------------------------------------------------------------------------
(* The ranking steps of /search (backend.py:97-131) followed on hit lists of  *)
(* the size the handler asks for, so that the 12-entry rerank pool is filled. *)

FetchK == 20            \* backend.py:98  fetch_k

\* backend.py:74-76  top_k: int, no bounds declared: negative, zero, one,
\* the default and more than the rerank pool holds
RankTopKs == {0 - 1, 0, 1, 10, 13}

\* point ids at which the sparse ranking starts: inside the dense hits at
\* their head, inside them further down, and past all of them
SparseStarts == {1, 8, FetchK + 1}

\* backend.py:99  search_via_rest(..., "dense", fetch_k): up to fetch_k points
DenseRankLists == {[j \in 1..n |-> j] : n \in 0..FetchK}

\* backend.py:100  search_via_rest(..., "sparse", fetch_k): up to fetch_k points
SparseRankLists ==
    {[j \in 1..n |-> b + j - 1] : n \in 0..FetchK, b \in SparseStarts}

InitRank ==
    /\ ServiceIdle
    /\ NormIdle
    /\ \E d \in DenseRankLists, sp \in SparseRankLists, k \in RankTopKs :
          rank = [RankIdle EXCEPT !.pc = "hits", !.dense_hits = d,
                                  !.sparse_hits = sp, !.top_k = k]

\* backend.py:102-111  merge the hit lists; nothing to rank when none is left
RankMerge ==
    /\ rank.pc = "hits"
    /\ LET candidates == Candidates(rank.dense_hits, rank.sparse_hits)
       IN rank' = [rank EXCEPT !.candidates = candidates,
                               !.pc = IF candidates = <<>> THEN "empty" ELSE "candidates"]
    /\ UNCHANGED <<redisUp, resolveVars, searchVars, normVars>>

\* backend.py:114  rerank_pool = candidates[:12]
RankPool ==
    /\ rank.pc = "candidates"
    /\ rank' = [rank EXCEPT !.rerank_pool = RerankPool(rank.candidates), !.pc = "pool"]
    /\ UNCHANGED <<redisUp, resolveVars, searchVars, normVars>>

\* backend.py:115-131  score, sort, cut to top_k, build the results
RankRerank ==
    /\ rank.pc = "pool"
    /\ rank' = [rank EXCEPT !.results = Results(Ranked(rank.rerank_pool, rank.top_k)),
                            !.pc = "done"]
    /\ UNCHANGED <<redisUp, resolveVars, searchVars, normVars>>

NextRank == RankMerge \/ RankPool \/ RankRerank

SpecRank == InitRank /\ [][NextRank]_vars

-----------------------------------------------------------------------------
(* The claims *)

Written(old, new, k) == k \in DOMAIN new /\ (k \notin DOMAIN old \/ new[k] # old[k])

TracesOf(i) == {n \in 1..Len(traces) : traces[n].req = i}

\* C1: a cache entry is written only by a request that ends in a successful
\* result: in /resolve by the step that answers 200 after the judge accepted and
\* the index resolved to a retrieved candidate, in /search by the step that
\* answers with the reranked response; a request that ends any other way leaves
\* the cache as it was.
C1_CacheWriteOnlyOnSuccess ==
    [][ /\ \A k \in DOMAIN cache' :
             Written(cache, cache', k) =>
                \E i \in Reqs :
                    /\ req[i].pc = "miss" /\ req'[i].pc = "done"
                    /\ req'[i].normalized_query = k
                    /\ req'[i].response.status = 200
                    /\ cache'[k] = JsonDumps(req'[i].response.body)
                    /\ Len(req'[i].tasks) = 1
                    /\ Truthy(req'[i].tasks[1].decision.match_found)
                    /\ req'[i].tasks[1].decision.candidate_id.s
                          \in CandidateKeys(req'[i].tasks[1].search_results)
        /\ \A k \in DOMAIN scache' :
             Written(scache, scache', k) =>
                \E i \in Reqs :
                    /\ sreq[i].pc = "miss" /\ sreq'[i].pc = "done"
                    /\ sreq'[i].cache_key = k
                    /\ sreq'[i].response.status = 200
                    /\ sreq'[i].response.source = "Hybrid+TinyBERT"
                    /\ sreq'[i].response.results # <<>>
                    /\ scache'[k] = SJsonDumps(sreq'[i].response)
        /\ \A i \in Reqs :
             /\ req[i].pc # "done" /\ req'[i].pc = "done"
             /\ req'[i].path # "success"
             => cache' = cache /\ scache' = scache
        /\ \A i \in Reqs :
             /\ sreq[i].pc # "done" /\ sreq'[i].pc = "done"
             /\ sreq'[i].path # "success"
             => cache' = cache /\ scache' = scache
      ]_vars

\* both endpoints have stored the response they answered with
C1_Witness ==
    /\ req[1].path = "success"
    /\ req[1].normalized_query \in DOMAIN cache
    /\ <<cache[req[1].normalized_query]>> = req[1].written
    /\ sreq[2].path = "success"
    /\ sreq[2].cache_key \in DOMAIN scache
    /\ <<scache[sreq[2].cache_key]>> = sreq[2].written

\* the paths of /resolve the claim C2 lists
ListedPaths ==
    {"cache_hit", "vector_store_error", "no_candidates", "judge_error",
     "not_json", "not_object", "rejected", "invalid_id", "success"}

\* C2 (as claimed): every /resolve request, whichever of the listed paths it
\* takes, gets exactly one trace record written by log_trace, unless the trace
\* write itself failed.
C2_OneTracePerRequest ==
    \A i \in Reqs :
        /\ req[i].pc = "done"
        /\ req[i].path \in ListedPaths
        /\ req[i].tasks = <<>>
        => \/ Cardinality(TracesOf(i)) = 1
           \/ req[i].trace_failed /\ TracesOf(i) = {}

\* the status a genuine judge rejection is answered with
RejectionStatus ==
    ResolveTail(<<"a">>, <<1>>,
                [kind |-> "object", match_found |-> JFalse, candidate_id |-> JNull],
                0).response.status

\* C3 (as claimed): match_found = true with a candidate_id that is no index of
\* the candidate list is answered as a rejection, with the status of a genuine
\* judge rejection and never a success, and its trace record differs from the
\* record of a genuine rejection.
C3_InvalidIndexIsRejection ==
    \A i \in Reqs :
        req[i].path = "invalid_id" =>
            /\ req[i].response.status = RejectionStatus
            /\ req[i].response.status # 200
            /\ \A n \in TracesOf(i) : traces[n].error # "LLM Rejected"

\* C4 (as claimed): a trace record has status 'success' only if its request
\* returned a successful match.
C4_SuccessStatusOnlyOnSuccess ==
    \A n \in 1..Len(traces) :
        traces[n].status = "success" => req[traces[n].req].response.status = 200

\* C5 (as claimed): a judge reply that is not valid JSON, or valid JSON that is no
\* object, is handled as malformed: a rejection response, no cache entry, one
\* trace call scheduled and marked as a decode error, never an unhandled failure.
C5_MalformedReplyRejected ==
    \A i \in Reqs :
        req[i].path \in {"not_json", "not_object"} =>
            /\ req[i].response.status = RejectionStatus
            /\ req[i].response # Unhandled
            /\ req[i].written = <<>>
            /\ \/ Len(req[i].tasks) = 1 /\ req[i].tasks[1].error_state = "JSON Decode Error"
               \/ req[i].tasks = <<>> /\ (TracesOf(i) # {} \/ req[i].trace_failed)

\* C6 (as claimed): a failing judge call is answered at once with a rejection,
\* one trace record of outcome not_found is scheduled, no cache entry is written.
C6_JudgeFailureRejected ==
    \A i \in Reqs :
        req[i].path = "judge_error" =>
            /\ req[i].response.status = RejectionStatus
            /\ req[i].written = <<>>
            /\ \/ Len(req[i].tasks) = 1
               \/ \E n \in TracesOf(i) : traces[n].status = "not_found"
               \/ req[i].trace_failed

\* C7 (as claimed): an unreachable cache store, on the read or on the write,
\* never makes /resolve or /search fail or return an error result.
C7_CacheFailureIsBypass ==
    \A i \in Reqs :
        /\ req[i].path \in {"cache_read_error", "cache_write_error"}
              => req[i].response.status # 500
        /\ sreq[i].path \in {"cache_read_error", "cache_write_error"}
              => sreq[i].response.status # 500 /\ sreq[i].response.source # "Error"

\* C10: a request that answers successfully with the cache reachable has stored
\* its serialized response under its key by the time it answers; a request that
\* starts while the store is reachable and holds an entry for its key answers
\* with exactly that entry (every field, latency_ms included), calls neither
\* embedder, vector store, reranker nor judge, and leaves the cache as it is.
C10_CachedResponseServed ==
    [][ /\ \A i \in Reqs :
             /\ req[i].pc = "miss" /\ req'[i].pc = "done"
             /\ req'[i].response.status = 200
             /\ redis_client # None
             => /\ req[i].normalized_query \in DOMAIN cache'
                /\ cache'[req[i].normalized_query] = JsonDumps(req'[i].response.body)
        /\ \A i \in Reqs :
             /\ req[i].pc = "idle" /\ req'[i].pc # "idle"
             /\ redis_client # None /\ redisUp
             /\ req'[i].normalized_query \in DOMAIN cache
             => /\ req'[i].pc = "done"
                /\ req'[i].response.status = 200
                /\ JsonDumps(req'[i].response.body) = cache[req'[i].normalized_query]
                /\ req'[i].calls = {}
                /\ cache' = cache
        /\ \A i \in Reqs :
             /\ sreq[i].pc = "miss" /\ sreq'[i].pc = "done"
             /\ sreq'[i].response.source = "Hybrid+TinyBERT"
             /\ r # None
             => /\ sreq[i].cache_key \in DOMAIN scache'
                /\ scache'[sreq[i].cache_key] = SJsonDumps(sreq'[i].response)
        /\ \A i \in Reqs :
             /\ sreq[i].pc = "idle" /\ sreq'[i].pc # "idle"
             /\ r # None /\ redisUp
             /\ sreq'[i].cache_key \in DOMAIN scache
             => /\ sreq'[i].pc = "done"
                /\ sreq'[i].response.status = 200
                /\ SJsonDumps(sreq'[i].response) = scache[sreq'[i].cache_key]
                /\ sreq'[i].calls = {}
                /\ scache' = scache
      ]_vars

\* request 1 stored its answer and the later request 2, same key, was answered
\* with it
C10_Witness ==
    /\ req[1].path = "success"
    /\ req[2].path = "cache_hit"
    /\ req[2].cached_result = req[1].written
    /\ req[2].response.body = req[1].response.body
    /\ req[2].response.body.latency_ms = 1
    /\ req[2].calls = {}


SearchEventsOf(i) == {n \in 1..Len(slog) : slog[n].req = i}

\* C11 (as claimed): when retrieval returns no candidate, the request is answered
\* not-found/empty rather than with an error, and exactly one trace record (one
\* log event in /search) is written for it.
C11_EmptyRetrievalTraced ==
    \A i \in Reqs :
        /\ req[i].path = "no_candidates" =>
              /\ req[i].response.status = 404
              /\ \/ Len(req[i].tasks) = 1
                 \/ Cardinality(TracesOf(i)) = 1
                 \/ req[i].trace_failed
        /\ sreq[i].path = "no_candidates" =>
              /\ sreq[i].response = SEmpty
              /\ \/ Len(sreq[i].tasks) = 1
                 \/ Cardinality(SearchEventsOf(i)) = 1
                 \/ sreq[i].log_failed


Ids(seq) == {seq[j] : j \in 1..Len(seq)}
NoRepeat(seq) == \A a, b \in 1..Len(seq) : seq[a] = seq[b] => a = b
ResultIds(results) == [j \in 1..Len(results) |-> results[j].id]

\* C12: in /search the candidate list, the rerank pool and the returned results
\* never hold the same point id twice, whatever ids the dense and sparse hit
\* lists share.
C12_NoDuplicatePoint ==
    /\ NoRepeat(rank.candidates)
    /\ NoRepeat(rank.rerank_pool)
    /\ NoRepeat(ResultIds(rank.results))

\* a ranking is finished whose hit lists share ids and that returns several results
C12_Witness ==
    /\ rank.pc = "done"
    /\ Cardinality(Ids(rank.dense_hits) \cap Ids(rank.sparse_hits)) >= 2
    /\ Ids(rank.sparse_hits) \ Ids(rank.dense_hits) # {}
    /\ Len(rank.results) >= 2


\* the step appends a trace record (a log event) of request i, or ends one of
\* its scheduled recordings
TraceRuns(i) ==
    \/ Len(req'[i].tasks) < Len(req[i].tasks)
    \/ req'[i].trace_failed # req[i].trace_failed
    \/ /\ Len(traces') > Len(traces)
       /\ traces'[Len(traces')].req = i
LogEventRuns(i) ==
    \/ Len(sreq'[i].tasks) < Len(sreq[i].tasks)
    \/ sreq'[i].log_failed # sreq[i].log_failed
    \/ /\ Len(slog') > Len(slog)
       /\ slog'[Len(slog')].req = i

\* C13: a trace record or log event of a request is written only after that
\* request has been answered; the step that writes it, or fails to, leaves the
\* answer, every request's outcome and both caches as they were.
C13_TraceAfterResponse ==
    [][\A i \in Reqs :
          /\ TraceRuns(i) =>
                /\ req[i].pc = "done"
                /\ req'[i].pc = "done"
                /\ req'[i].response = req[i].response
                /\ req'[i].path = req[i].path
                /\ \A j \in Reqs \ {i} : req'[j] = req[j]
                /\ cache' = cache
                /\ sreq' = sreq /\ scache' = scache
          /\ LogEventRuns(i) =>
                /\ sreq[i].pc = "done"
                /\ sreq'[i].pc = "done"
                /\ sreq'[i].response = sreq[i].response
                /\ sreq'[i].path = sreq[i].path
                /\ \A j \in Reqs \ {i} : sreq'[j] = sreq[j]
                /\ scache' = scache
                /\ req' = req /\ cache' = cache]_vars

\* a trace write and a log write have failed for requests answered with a
\* match and with results, and the entries those requests cached are in place
C13_Witness ==
    \E i, j \in Reqs :
        /\ req[i].trace_failed
        /\ req[i].response.status = 200
        /\ req[i].written # <<>>
        /\ req[i].normalized_query \in DOMAIN cache
        /\ cache[req[i].normalized_query] = req[i].written[1]
        /\ sreq[j].log_failed
        /\ sreq[j].path = "success"
        /\ sreq[j].response.results # <<>>


\* C14: when the handler, having consulted the judge, answers with a match, the
\* title, price, url and retailer it returns are those of the candidate that
\* stands in this request's candidate list at the index the judge returned.
C14_ProductFromCandidates ==
    [][\A i \in Reqs :
          (req[i].pc = "miss" /\ req'[i].pc = "done" /\ req'[i].response.status = 200) =>
              LET a    == req'[i].tasks[1]
                  body == req'[i].response.body
              IN \E j \in 1..Len(a.search_results) :
                    /\ a.decision.candidate_id.s = IdxStr(j - 1)
                    /\ body.product_title = Payload(a.search_results[j]).extracted_title
                    /\ body.price = Payload(a.search_results[j]).price
                    /\ body.url = Payload(a.search_results[j]).url
                    /\ body.retailer = Payload(a.search_results[j]).retailer]_vars

\* a match was returned for the second of two retrieved candidates
C14_Witness ==
    \E i \in Reqs :
        /\ req[i].path = "success"
        /\ req[i].tasks # <<>>
        /\ Len(req[i].tasks[1].search_results) = 2
        /\ req[i].tasks[1].decision.candidate_id = JInt(1)
        /\ req[i].response.body.product_title = Payload(2).extracted_title


\* C15 (as claimed): when the vector store fails during /resolve the caller gets
\* a server-failure answer whose message does not carry the text of the
\* store's error, and that error is recorded in a trace record of the request.
C15_StoreFailureGenericAndTraced ==
    \A i \in Reqs :
        req[i].path = "vector_store_error" =>
            /\ req[i].response.status = 500
            /\ \A n \in 1..Len(req[i].response.detail) :
                   req[i].response.detail[n] # QdrantErrorText
            /\ \/ /\ req[i].tasks # <<>>
                  /\ req[i].tasks[1].error_state = QdrantErrorText
               \/ \E n \in TracesOf(i) : traces[n].error = QdrantErrorText
               \/ req[i].trace_failed


NonIncreasing(results) ==
    \A j \in 1..(Len(results) - 1) :
        results[j].relevance_score >= results[j + 1].relevance_score

\* C16 (as claimed): for every top_k the request model admits, a /search that
\* reaches the rerank step returns results in non-increasing relevance score,
\* each with a score and each taken from a rerank pool of at most 12 candidates,
\* and no more of them than top_k (none when top_k is below zero).
C16_RankedWithinTopK ==
    rank.pc = "done" =>
        /\ NonIncreasing(rank.results)
        /\ \A j \in 1..Len(rank.results) :
              /\ rank.results[j].relevance_score = Round3(Sigmoid(Logit(rank.results[j].id)))
              /\ rank.results[j].id \in Ids(rank.rerank_pool)
        /\ Len(rank.rerank_pool) <= 12
        /\ Len(rank.results) <= (IF rank.top_k < 0 THEN 0 ELSE rank.top_k)


\* C17 (as claimed): a cache key is written at most once within one TTL window:
\* a request writes a key only while the store holds no unexpired entry for it.
C17_WriteOncePerWindow ==
    [][\A i \in Reqs :
          /\ (req[i].pc = "miss" /\ req'[i].written # <<>>) =>
                req[i].normalized_query \notin DOMAIN cache
          /\ (sreq[i].pc = "miss" /\ sreq'[i].written # <<>>) =>
                sreq[i].cache_key \notin DOMAIN scache]_vars

\* C17 (amended): only a request whose own lookup missed writes its key. A
\* request that starts while the store holds an unexpired entry for its key is
\* answered at once and writes nothing; an answered request never writes.
C17_WriteOnlyAfterOwnMiss ==
    [][\A i \in Reqs :
          /\ (req[i].pc = "idle" /\ req'[i].pc # "idle"
                /\ req'[i].normalized_query \in DOMAIN cache) =>
                (req'[i].pc = "done" /\ req'[i].written = <<>>)
          /\ req'[i].written # req[i].written => req[i].pc = "miss"
          /\ (sreq[i].pc = "idle" /\ sreq'[i].pc # "idle"
                /\ sreq'[i].cache_key \in DOMAIN scache) =>
                (sreq'[i].pc = "done" /\ sreq'[i].written = <<>>)
          /\ sreq'[i].written # sreq[i].written => sreq[i].pc = "miss"]_vars

\* one request has written an entry and another, started while the entry was
\* in the store, was answered from it and wrote nothing
C17_Witness ==
    \E i, j \in Reqs :
        /\ i # j
        /\ req[i].written # <<>>
        /\ req[j].path = "cache_hit"
        /\ req[j].cached_result = req[i].written
        /\ req[j].written = <<>>


\* the sparse hits whose id no dense hit carries, in their order
SparseOnly(dense_hits, sparse_hits) ==
    LET NotDense(id) == id \notin Ids(dense_hits)
    IN SelectSeq(sparse_hits, NotDense)

FirstN(seq, n) == SubSeq(seq, 1, IF Len(seq) < n THEN Len(seq) ELSE n)

\* C18: the rerank pool is the first 12 entries of the dense hits followed by
\* the sparse hits not among them; a result found only by the sparse query
\* occurs only when there are fewer than 12 dense hits, and with 12 or more
\* dense hits the results are those the dense hits alone would give.
C18_PoolPrefersDense ==
    /\ rank.pc \in {"pool", "done"} =>
          rank.rerank_pool =
              FirstN(rank.dense_hits \o SparseOnly(rank.dense_hits, rank.sparse_hits), 12)
    /\ rank.pc = "done" =>
          /\ (\E j \in 1..Len(rank.results) :
                  rank.results[j].id \notin Ids(rank.dense_hits))
                => Len(rank.dense_hits) < 12
          /\ Len(rank.dense_hits) >= 12 =>
                rank.results = RankedResults(rank.dense_hits, <<>>, rank.top_k)

\* a ranking is finished for 12 or more dense hits and sparse hits that the
\* dense query did not find, and it returns results
C18_Witness ==
    /\ rank.pc = "done"
    /\ Len(rank.dense_hits) >= 12
    /\ Ids(rank.sparse_hits) \ Ids(rank.dense_hits) # {}
    /\ rank.results # <<>>


\* C19 (as claimed): /resolve answers with a match, and caches it, only when the
\* judge's reply has match_found equal to the boolean true and candidate_id
\* equal to an integer index of the candidate list.
C19_StrictDecisionTypes ==
    \A i \in Reqs :
        (req[i].tasks # <<>> /\ (req[i].response.status = 200 \/ req[i].written # <<>>)) =>
            LET decision == req[i].tasks[1].decision
            IN /\ decision.match_found = JTrue
               /\ decision.candidate_id.t = "int"
               /\ decision.candidate_id.s \in CandidateKeys(req[i].tasks[1].search_results)


\* C20 (as claimed): every 'Hybrid+TinyBERT' event in the search log, with its
\* result count n, belongs to a request whose response has source
\* 'Hybrid+TinyBERT' and exactly n results.
C20_EventAgreesWithResponse ==
    \A n \in 1..Len(slog) :
        slog[n].source = "Hybrid+TinyBERT" =>
            /\ sreq[slog[n].req].response.source = "Hybrid+TinyBERT"
            /\ Len(sreq[slog[n].req].response.results) = slog[n].results_count

====
